---- MODULE Spec2Model ----
(***************************************************************************)
(* A model of money.py: the ledger line parser (Entry), the ledger         *)
(* (Bookkeeper.account / filter), the aggregations and the load loop.      *)
(*                                                                         *)
(* Text is modelled character by character: a Python str is a sequence of  *)
(* one-character strings.  A datetime.date is the triple <<y, m, d>>.      *)
(* Python's None is the one-element sequence <<"None">>, which is neither  *)
(* a text of characters nor a date.  Amounts are fixed-point numbers       *)
(* counted in 1/Scale units (Python computes them in floating point).      *)
(***************************************************************************)
EXTENDS Integers, Sequences, FiniteSets, TLC

None == <<"None">>

\* amounts are counted in hundredths
Scale == 100

Digits == {"0", "1", "2", "3", "4", "5", "6", "7", "8", "9"}

Letters == {"a", "b", "c", "d", "e", "f", "g", "h", "i", "j", "k", "l", "m",
            "n", "o", "p", "q", "r", "s", "t", "u", "v", "w", "x", "y", "z", "_"}

\* the character class [\(\)\d\+-\.,\*] of both regular expressions;
\* the range +-\. is the four characters + , - .
NumClass == Digits \cup {"(", ")", "+", ",", "-", ".", "*"}

\* \w
WordClass == Digits \cup Letters

\* \s, and the characters str.strip() and str.split() remove
IsSpace(c) == c = " "

\* s[p:] with p counted from 1
Tail_(s, p) == SubSeq(s, p, Len(s))

RECURSIVE RunLen(_, _, _)
\* the length of the longest run of characters of class C that starts at p
RunLen(s, p, C) ==
    IF p > Len(s) THEN 0
    ELSE IF s[p] \notin C THEN 0
    ELSE 1 + RunLen(s, p + 1, C)

SpaceRun(s, p) == RunLen(s, p, {" "})

\* \d\d\d\d\.\d\d\.\d\d matches at position p
IsDateAt(s, p) ==
    /\ p + 9 <= Len(s)
    /\ \A i \in {0, 1, 2, 3, 5, 6, 8, 9} : s[p + i] \in Digits
    /\ s[p + 4] = "."
    /\ s[p + 7] = "."

RECURSIVE FirstB(_, _)
\* the lazy group (.*?) followed by " +" and one character of the class:
\* the first position b >= a where a run of spaces starts that ends in
\* front of a character of the class; 0 when there is none
FirstB(s, a) ==
    IF a > Len(s) THEN 0
    ELSE IF /\ s[a] = " "
            /\ a + SpaceRun(s, a) <= Len(s)
            /\ s[a + SpaceRun(s, a)] \in NumClass
    THEN a
    ELSE FirstB(s, a + 1)

\* The choices a backtracking matcher makes for the common head of both
\* expressions, "spaces, optional date, spaces": k1 leading spaces, the date
\* taken or not, k3 spaces after it.  Greedy quantifiers try the larger
\* count first and the optional group is tried before it is skipped.
HeadChoices(s, minK3) ==
    UNION {UNION {{<<k1, d, k3>> :
                      k3 \in minK3..SpaceRun(s, k1 + 1 + (IF d THEN 10 ELSE 0))} :
                  d \in {b \in BOOLEAN : b => IsDateAt(s, k1 + 1)}} :
           k1 \in 0..SpaceRun(s, 1)}

HeadEnd(c) == c[1] + 1 + (IF c[2] THEN 10 ELSE 0) + c[3]

\* c is tried before d
TriedBefore(c, d) ==
    \/ c[1] > d[1]
    \/ c[1] = d[1] /\ c[2] /\ ~d[2]
    \/ c[1] = d[1] /\ c[2] = d[2] /\ c[3] > d[3]

FirstChoice(S) == CHOOSE c \in S : \A d \in S : d = c \/ TriedBefore(c, d)

\* the groups of a match, once the head choice c and the start a of the lazy
\* group are fixed
\* b is where the spaces behind the lazy group start, q where the amount
\* starts and k how long the amount is; \w* takes the word characters that
\* follow it
Groups(s, c, a) ==
    LET groups(b, q, k) ==
            [matched |-> TRUE,
             date    |-> IF c[2] THEN SubSeq(s, c[1] + 1, c[1] + 10) ELSE None,
             lazy    |-> SubSeq(s, a, b - 1),
             value   |-> SubSeq(s, q, q + k - 1),
             rest    |-> Tail_(s, q + k + RunLen(s, q + k, WordClass))]
        amount(b, q) == groups(b, q, RunLen(s, q, NumClass))
        spaces(b) == amount(b, b + SpaceRun(s, b))
    IN  spaces(FirstB(s, a))

NoMatch == [matched |-> FALSE]

\* the match with the head choice tried first among S, the lazy group
\* starting skip characters behind the head
FirstMatch(s, S, skip) ==
    IF S = {} THEN NoMatch
    ELSE Groups(s, FirstChoice(S), HeadEnd(FirstChoice(S)) + skip)

\* cmd_re.match(s):  \s*(\d\d\d\d\.\d\d\.\d\d)?\s+!(.*?) +([\(\)\d\+-\.\*,]+)\s*
cmd_re(s) ==
    FirstMatch(s, {c \in HeadChoices(s, 1) :
                      /\ HeadEnd(c) <= Len(s)
                      /\ s[HeadEnd(c)] = "!"
                      /\ FirstB(s, HeadEnd(c) + 1) # 0}, 1)

\* entry_re.match(s):  *(\d\d\d\d\.\d\d\.\d\d)? *(.*?) +([\(\)\d\+-\.,\*]+)\w*(.*)
entry_re(s) ==
    FirstMatch(s, {c \in HeadChoices(s, 0) : FirstB(s, HeadEnd(c)) # 0}, 0)

(***************************************************************************)
(* str methods                                                             *)
(***************************************************************************)
RECURSIVE strip(_)
\* s.strip()
strip(s) ==
    IF s = <<>> THEN s
    ELSE IF IsSpace(Head(s)) THEN strip(Tail(s))
    ELSE IF IsSpace(s[Len(s)]) THEN strip(SubSeq(s, 1, Len(s) - 1))
    ELSE s

RECURSIVE find(_, _, _)
\* the first position >= p of s that holds a character of C; Len(s) + 1 when
\* there is none
find(s, p, C) ==
    IF p > Len(s) THEN p
    ELSE IF s[p] \in C THEN p
    ELSE find(s, p + 1, C)

RECURSIVE split_on(_, _)
\* s.split(sep) for a one-character separator: the pieces, empty ones too
split_on(s, sep) ==
    LET i == find(s, 1, {sep})
    IN  IF i > Len(s) THEN <<s>>
        ELSE <<SubSeq(s, 1, i - 1)>> \o split_on(Tail_(s, i + 1), sep)

RECURSIVE split(_)
\* s.split(): the maximal runs of non-space characters
split(s) ==
    LET t == Tail_(s, SpaceRun(s, 1) + 1)
        i == find(t, 1, {" "})
    IN  IF t = <<>> THEN <<>>
        ELSE <<SubSeq(t, 1, i - 1)>> \o split(Tail_(t, i))

RECURSIVE join(_, _)
\* sep.join(parts)
join(sep, parts) ==
    IF parts = <<>> THEN <<>>
    ELSE IF Len(parts) = 1 THEN parts[1]
    ELSE parts[1] \o sep \o join(sep, Tail(parts))

\* s.replace(',', '.')
replace_comma(s) == [i \in 1..Len(s) |-> IF s[i] = "," THEN "." ELSE s[i]]

(***************************************************************************)
(* int(), datetime.date() and eval()                                       *)
(***************************************************************************)
DigitVal(c) ==
    CASE c = "0" -> 0 [] c = "1" -> 1 [] c = "2" -> 2 [] c = "3" -> 3
      [] c = "4" -> 4 [] c = "5" -> 5 [] c = "6" -> 6 [] c = "7" -> 7
      [] c = "8" -> 8 [] c = "9" -> 9

RECURSIVE int(_)
\* int(s) of a text of digits
int(s) == IF s = <<>> THEN 0 ELSE 10 * int(SubSeq(s, 1, Len(s) - 1)) + DigitVal(s[Len(s)])

IsLeap(y) == (y % 4 = 0) /\ ((y % 100 # 0) \/ (y % 400 = 0))

DaysInMonth(y, m) ==
    IF m = 2 THEN (IF IsLeap(y) THEN 29 ELSE 28)
    ELSE IF m \in {4, 6, 9, 11} THEN 30 ELSE 31

\* datetime.date(y, m, d) raises ValueError unless this holds
ValidDate(y, m, d) ==
    /\ y \in 1..9999
    /\ m \in 1..12
    /\ d \in 1..DaysInMonth(y, m)

\* datetime.date(*map(int, date_str.split('.'))), for a text the date group matched
ParseDate(date_str) ==
    LET p == split_on(date_str, ".")
        y == int(p[1])
        m == int(p[2])
        d == int(p[3])
    IN  IF ValidDate(y, m, d) THEN [exc |-> "none", day |-> <<y, m, d>>]
        ELSE [exc |-> "ValueError", day |-> None]

SyntaxError == [exc |-> "SyntaxError", v |-> 0, next |-> 0]

\* a number literal at position p: digits with an optional fraction.  An
\* integer literal with a leading zero is a syntax error unless it is all
\* zeros.  Fraction digits finer than 1/Scale are dropped.
Number(s, p) ==
    LET n1 == RunLen(s, p, Digits)
        dot == p + n1 <= Len(s) /\ s[p + n1] = "."
        n2 == IF dot THEN RunLen(s, p + n1 + 1, Digits) ELSE 0
        ip == SubSeq(s, p, p + n1 - 1)
        fp == SubSeq(s, p + n1 + 1, p + n1 + n2)
        f2 == SubSeq(fp \o <<"0", "0">>, 1, 2)
    IN  IF n1 + n2 = 0 THEN SyntaxError
        ELSE IF ~dot /\ n1 > 1 /\ s[p] = "0" /\ int(ip) # 0 THEN SyntaxError
        ELSE [exc |-> "none", v |-> int(ip) * Scale + int(f2),
              next |-> p + n1 + (IF dot THEN 1 + n2 ELSE 0)]

RECURSIVE Unary(_, _)
\* a number behind any chain of unary signs
Unary(s, p) ==
    IF p > Len(s) THEN SyntaxError
    ELSE CASE s[p] = "+" -> Unary(s, p + 1)
           [] s[p] = "-" -> LET u == Unary(s, p + 1) IN [u EXCEPT !.v = -u.v]
           [] s[p] \in Digits \cup {"."} -> Number(s, p)

RECURSIVE Sum(_, _, _, _)
\* acc, then the terms of s from p on, the first one taken with sign sgn
Sum(s, p, acc, sgn) ==
    LET u == Unary(s, p)
    IN  IF u.exc # "none" THEN u
        ELSE IF u.next > Len(s) THEN [u EXCEPT !.v = acc + sgn * u.v]
        ELSE CASE s[u.next] = "+" -> Sum(s, u.next + 1, acc + sgn * u.v, 1)
               [] s[u.next] = "-" -> Sum(s, u.next + 1, acc + sgn * u.v, -1)
               [] s[u.next] \in Digits \cup {"."} -> SyntaxError

\* eval(s) for an amount field made of digits, '.', '+' and '-': the value
\* in 1/Scale units.  Fields with '*', '(', ')' or ',' are not evaluated by
\* this model.
eval(s) == Sum(s, 1, 0, 1)

(***************************************************************************)
(* class Entry                                                             *)
(***************************************************************************)
\* Python compares a list and a tuple as unequal whatever they hold, and
\* Entry keeps cats as a list by default and as a tuple once parsed
list(items) == [type |-> "list", items |-> items]

tuple(items) == [type |-> "tuple", items |-> items]

\* the fields __init__ sets before it looks at the line: Entry()
DefaultEntry ==
    [cats |-> list(<<>>), tags |-> <<>>, day |-> None, value |-> 0,
     note |-> <<>>, cmd |-> None]

Returned(e) == [exc |-> "none", e |-> e]

Raised(x) == [exc |-> x, e |-> DefaultEntry]

NonEmpty(x) == x # <<>>

IsTagWord(x) == x[1] = "#"

IsNoteWord(x) == x[1] # "#"

\* [c.strip() for c in pieces]
strip_each(pieces) == [i \in 1..Len(pieces) |-> strip(pieces[i])]

\* [w[1:] for w in words]
tail_each(words) == [i \in 1..Len(words) |-> Tail(words[i])]

\* the command branch of __init__
CmdEntry(m) ==
    LET d == IF m.date = None THEN [exc |-> "AttributeError", day |-> None]
             ELSE ParseDate(m.date)
        v == eval(m.value)
    IN  IF d.exc # "none" THEN Raised(d.exc)
        ELSE IF v.exc # "none" THEN Raised(v.exc)
        ELSE Returned([DefaultEntry EXCEPT !.cmd = m.lazy, !.day = d.day, !.value = v.v])

\* the transaction branch of __init__
TransactionEntry(m, date) ==
    LET fields(value_gr, note_words, d, pieces, v) ==
            IF d.exc # "none" THEN Raised(d.exc)
            ELSE IF v.exc # "none" THEN Raised(v.exc)
            ELSE Returned([cats  |-> tuple(SelectSeq(strip_each(pieces), NonEmpty)),
                           tags  |-> tail_each(SelectSeq(note_words, IsTagWord)),
                           day   |-> d.day,
                           value |-> IF value_gr[1] = "+" THEN v.v ELSE -v.v,
                           note  |-> join(<<" ">>, SelectSeq(note_words, IsNoteWord)),
                           cmd   |-> None])
    IN  fields(replace_comma(m.value),
               SelectSeq(split(m.rest), NonEmpty),
               IF m.date = None THEN [exc |-> "none", day |-> date] ELSE ParseDate(m.date),
               split_on(m.lazy, ","),
               eval(replace_comma(m.value)))

\* Entry.__init__(s, date): the entry built, or the exception __init__ raises.  A
\* blank line, a comment line and a line neither expression matches all
\* leave the default fields.
Entry_init(s, date) ==
    LET transaction(m) ==
            IF ~m.matched THEN Returned(DefaultEntry) ELSE TransactionEntry(m, date)
        command(m) == IF m.matched THEN CmdEntry(m) ELSE transaction(entry_re(s))
        content(t) ==
            IF t = <<>> THEN Returned(DefaultEntry)
            ELSE IF t[1] = "#" THEN Returned(DefaultEntry)
            ELSE command(cmd_re(s))
    IN  IF s = None THEN Returned(DefaultEntry) ELSE content(strip(s))

(***************************************************************************)
(* The lines the model feeds to account                                     *)
(***************************************************************************)
\* "2023.01.01 a 1": an expense of day 1
l_a1 ==
    <<"2", "0", "2", "3", ".", "0", "1", ".", "0", "1", " ", "a", " ", "1">>

\* "2023.01.05 food 12.50": an expense of day 5, bare amount
l_food5 ==
    <<"2", "0", "2", "3", ".", "0", "1", ".", "0", "5", " ", "f", "o", "o", "d", " ", "1", "2", ".", "5", "0">>

\* "2023.01.03 food, snacks -12.50 lunch #work": day 3, amount with a leading minus
l_snack3 ==
    <<"2", "0", "2", "3", ".", "0", "1", ".", "0", "3", " ", "f", "o", "o", "d", ",", " ", "s", "n", "a", "c", "k", "s", " ", "-", "1", "2", ".", "5", "0", " ", "l", "u", "n", "c", "h", " ", "#", "w", "o", "r", "k">>

\* "2023.01.05 b +7": an income of day 5
l_b5 ==
    <<"2", "0", "2", "3", ".", "0", "1", ".", "0", "5", " ", "b", " ", "+", "7">>

\* "food 4": a transaction without a date
l_nodate ==
    <<"f", "o", "o", "d", " ", "4">>

\* "": the empty line
l_empty ==
    <<>>

\* " ": a whitespace-only line
l_space ==
    <<" ">>

\* "# c": a comment line
l_comment ==
    <<"#", " ", "c">>

\* "hello": a line neither expression matches
l_hello ==
    <<"h", "e", "l", "l", "o">>

\* "2023.01.03 !milestone 500": a milestone of day 3
l_mile3 ==
    <<"2", "0", "2", "3", ".", "0", "1", ".", "0", "3", " ", "!", "m", "i", "l", "e", "s", "t", "o", "n", "e", " ", "5", "0", "0">>

\* "2023.01.05 !foo 7": another command of day 5
l_foo5 ==
    <<"2", "0", "2", "3", ".", "0", "1", ".", "0", "5", " ", "!", "f", "o", "o", " ", "7">>

\* " !m 5": a command without a date
l_cmdnodate ==
    <<" ", "!", "m", " ", "5">>

\* "2023.13.01 a 5": a date that is no calendar date
l_baddate ==
    <<"2", "0", "2", "3", ".", "1", "3", ".", "0", "1", " ", "a", " ", "5">>

\* "2023.01.05 a 05": an amount eval rejects
l_badamount ==
    <<"2", "0", "2", "3", ".", "0", "1", ".", "0", "5", " ", "a", " ", "0", "5">>

Lines ==
    {l_a1, l_food5, l_snack3, l_b5, l_nodate, l_empty, l_space,
     l_comment, l_hello, l_mile3, l_foo5, l_cmdnodate, l_baddate, l_badamount}

\* Entry.__eq__: cmd is not compared
Entry_eq(a, b) ==
    /\ a.cats = b.cats
    /\ a.day = b.day
    /\ a.tags = b.tags
    /\ a.value = b.value
    /\ a.note = b.note

(***************************************************************************)
(* Entry.__str__                                                           *)
(***************************************************************************)
DigitChar(n) ==
    CASE n = 0 -> "0" [] n = 1 -> "1" [] n = 2 -> "2" [] n = 3 -> "3"
      [] n = 4 -> "4" [] n = 5 -> "5" [] n = 6 -> "6" [] n = 7 -> "7"
      [] n = 8 -> "8" [] n = 9 -> "9"

RECURSIVE str_int(_)
\* str(n) for n >= 0
str_int(n) == IF n < 10 THEN <<DigitChar(n)>> ELSE str_int(n \div 10) \o <<DigitChar(n % 10)>>

RECURSIVE zfill(_, _)
zfill(s, w) == IF Len(s) >= w THEN s ELSE zfill(<<"0">> \o s, w)

\* str(day): ISO format for a date, "None" for None
str_day(day) ==
    IF day = None THEN <<"N", "o", "n", "e">>
    ELSE zfill(str_int(day[1]), 4) \o <<"-">> \o zfill(str_int(day[2]), 2)
         \o <<"-">> \o zfill(str_int(day[3]), 2)

\* v / unit rounded to an integer, ties to the even neighbour (v >= 0)
RoundHalfEven(v, unit) ==
    LET q == v \div unit
        r == v % unit
    IN  IF 2 * r > unit \/ (2 * r = unit /\ q % 2 = 1) THEN q + 1 ELSE q

\* "{:.1f}".format(v) for an amount v in 1/Scale units
format_1f(v) ==
    LET t == RoundHalfEven(IF v < 0 THEN -v ELSE v, Scale \div 10)
    IN  (IF v < 0 THEN <<"-">> ELSE <<>>)
        \o str_int(t \div 10) \o <<".", DigitChar(t % 10)>>

\* "{:.0f}".format(v)
format_0f(v) ==
    (IF v < 0 THEN <<"-">> ELSE <<>>)
    \o str_int(RoundHalfEven(IF v < 0 THEN -v ELSE v, Scale))

\* str(e)
Entry_str(e) ==
    IF e.cmd = None
    THEN LET value_str == IF e.value < 0 THEN format_1f(-e.value)
                          ELSE <<"+">> \o format_0f(e.value)
         IN  str_day(e.day) \o <<" ">> \o join(<<",">>, e.cats.items) \o <<" ">>
             \o value_str \o <<" ">> \o e.note \o <<" ">>
             \o join(<<" ">>, [i \in 1..Len(e.tags) |-> <<"#">> \o e.tags[i]])
    ELSE str_day(e.day) \o <<" ", "!">> \o e.cmd \o <<" ">> \o format_1f(e.value)

(***************************************************************************)
(* datetime.date comparisons                                               *)
(***************************************************************************)
date_lt(a, b) ==
    \/ a[1] < b[1]
    \/ a[1] = b[1] /\ a[2] < b[2]
    \/ a[1] = b[1] /\ a[2] = b[2] /\ a[3] < b[3]

date_le(a, b) == a = b \/ date_lt(a, b)

(***************************************************************************)
(* Bookkeeper.account                                                      *)
(***************************************************************************)
\* x < y as functools.total_ordering derives it from __gt__ and __eq__:
\* not (x > y) and x != y
Entry_lt(x, y) == ~date_lt(y.day, x.day) /\ ~Entry_eq(x, y)

RECURSIVE bisect_right(_, _, _, _)
\* bisect.bisect_right(a, x, lo, hi) with lo and hi counted from 0; -1 when
\* a comparison meets a day that is None (TypeError)
bisect_right(a, x, lo, hi) ==
    IF lo >= hi THEN lo
    ELSE LET mid == (lo + hi) \div 2
         IN  IF x.day = None \/ a[mid + 1].day = None THEN -1
             ELSE IF Entry_lt(x, a[mid + 1]) THEN bisect_right(a, x, lo, mid)
             ELSE bisect_right(a, x, mid + 1, hi)

\* a variant of insert that writes x over the element at i instead of
\* moving it up
insert_overwrite(a, i, x) == SubSeq(a, 1, i) \o <<x>> \o SubSeq(a, i + 2, Len(a))

\* a.insert(i, x) with i counted from 0
insert(a, i, x) == SubSeq(a, 1, i) \o <<x>> \o SubSeq(a, i + 1, Len(a))

\* the position (from 0) at which account stores e, or -1 for a TypeError:
\* at the end when the last stored day is >= e.day, else where
\* bisect.insort_right puts it
StorePos(es, e) ==
    IF Len(es) > 0
    THEN IF es[Len(es)].day = None \/ e.day = None THEN -1
         ELSE IF date_le(e.day, es[Len(es)].day) THEN Len(es)
         ELSE bisect_right(es, e, 0, Len(es))
    ELSE bisect_right(es, e, 0, Len(es))

\* bk.account(line) on a Bookkeeper with the fields es and ld: the exception
\* it raises, if any, the fields it leaves, and where it stored an entry
\* (pos, from 0; -1 when it stored none)
account(es, ld, l) ==
    LET store(e, i) ==
            IF Entry_eq(e, DefaultEntry)
            THEN [exc |-> "none", entries |-> es, last_day |-> e.day, pos |-> -1]
            ELSE IF i = -1
            THEN [exc |-> "TypeError", entries |-> es, last_day |-> e.day, pos |-> -1]
            ELSE [exc |-> "none", entries |-> insert(es, i, e), last_day |-> e.day,
                  pos |-> i]
        parsed(r) ==
            IF r.exc # "none"
            THEN [exc |-> r.exc, entries |-> es, last_day |-> ld, pos |-> -1]
            ELSE store(r.e, StorePos(es, r.e))
    IN  IF l = <<>> THEN [exc |-> "none", entries |-> es, last_day |-> ld, pos |-> -1]
        ELSE parsed(Entry_init(l, ld))

(***************************************************************************)
(* Bookkeeper.get_total_value, filter and the category reports             *)
(***************************************************************************)
milestone == <<"m", "i", "l", "e", "s", "t", "o", "n", "e">>

RECURSIVE total_from(_, _)
\* the loop of get_total_value over es, started with result
total_from(es, result) ==
    IF es = <<>> THEN result
    ELSE IF Head(es).cmd = milestone THEN total_from(Tail(es), Head(es).value)
    ELSE total_from(Tail(es), result + Head(es).value)

get_total_value(es) == total_from(es, 0)

\* the absent value of an argument that is a list when given
none_ == [type |-> "NoneType", items |-> <<>>]

\* len(e.cats) >= len(c) and all([e.cats[i] == c[i] for i in range(len(c))])
cats_match(e, c) ==
    /\ Len(e.cats.items) >= Len(c)
    /\ \A i \in 1..Len(c) : e.cats.items[i] = c[i]

RECURSIVE by_cats(_, _, _)
\* the loops of filter over the entries es and the prefixes cs of cats: an
\* entry is appended at every prefix it matches (the continue statement
\* goes on with the next prefix)
by_cats(es, cats, cs) ==
    IF es = <<>> THEN <<>>
    ELSE IF cs = <<>> THEN by_cats(Tail(es), cats, cats)
    ELSE (IF cats_match(Head(es), Head(cs)) THEN <<Head(es)>> ELSE <<>>)
         \o by_cats(es, cats, Tail(cs))

\* bk.filter(period, cats, tags, sign, cmds) consumed to the end, on the
\* entries es with datetime.date.today() = today: the exception raised, if
\* any, and the entries produced
filter(es, today, period, cats, tags, sign, cmds) ==
    LET in_cmds(x) == \E i \in 1..Len(cmds) : cmds[i] = x.cmd
        positive(x) == x.value > 0
        negative(x) == x.value < 0
        pr0 == IF period[1] # None THEN period[1] ELSE es[1].day
        pr1 == IF period[2] # None THEN period[2] ELSE today
        in_period(x) == date_le(pr0, x.day) /\ date_le(x.day, pr1)
        by_sign(r) ==
            IF sign = <<"+">> THEN SelectSeq(r, positive)
            ELSE IF sign = <<"-">> THEN SelectSeq(r, negative)
            ELSE r
        by_period(r) == IF period = None THEN r ELSE SelectSeq(r, in_period)
        by_categories(r) ==
            IF cats.type = "NoneType" THEN r ELSE by_cats(r, cats.items, cats.items)
        by_tags(r) ==
            IF tags.type # "NoneType" /\ r # <<>>
            THEN [exc |-> "AttributeError", items |-> <<>>]
            ELSE [exc |-> "none", items |-> r]
        generators(r) ==
            IF period # None /\ period[1] = None /\ es = <<>>
            THEN [exc |-> "IndexError", items |-> <<>>]
            ELSE IF period # None /\ r # <<>>
                    /\ (pr0 = None \/ \E i \in 1..Len(r) : r[i].day = None)
            THEN [exc |-> "TypeError", items |-> <<>>]
            ELSE by_tags(by_categories(by_period(r)))
    IN  generators(by_sign(SelectSeq(es, in_cmds)))

\* the keys of expenses_by_top_categories: x.cats[:1]
top(x) == IF x.cats.items = <<>> THEN <<>> ELSE <<x.cats.items[1]>>

RECURSIVE sum_values(_)
sum_values(es) == IF es = <<>> THEN 0 ELSE Head(es).value + sum_values(Tail(es))

\* [str(x) for x in es]
notes(es) == [i \in 1..Len(es) |-> Entry_str(es[i])]

\* the cell of the expenses es: the spent sum and the texts
spent(es) == [value |-> -sum_values(es), note |-> notes(es)]

\* bk.expenses_by_top_categories(es): per top category the spent sum and the
\* texts of its expenses; a command entry with a negative value has a list
\* as its key, which a dict refuses
expenses_by_top_categories(es) ==
    LET negative(x) == x.value < 0
        by_key(xs) ==
            IF \E i \in 1..Len(xs) : xs[i].cats.type = "list"
            THEN [exc |-> "TypeError", result |-> <<>>]
            ELSE [exc |-> "none",
                  result |-> [k \in {top(xs[i]) : i \in 1..Len(xs)} |->
                      LET has_k(x) == top(x) = k
                      IN  spent(SelectSeq(xs, has_k))]]
    IN  by_key(SelectSeq(es, negative))

\* bk.all_categories(): a set takes tuples but no lists, so a stored command
\* entry makes it raise
all_categories(es) ==
    IF \E i \in 1..Len(es) : es[i].cats.type = "list"
    THEN [exc |-> "TypeError", result |-> {}]
    ELSE [exc |-> "none", result |-> {es[i].cats.items : i \in 1..Len(es)}]

(***************************************************************************)
(* Calendar arithmetic: datetime.date, timedelta, relativedelta and rrule  *)
(***************************************************************************)
RECURSIVE days_before_month(_, _)
\* the days of year y that precede its month m
days_before_month(y, m) ==
    IF m = 1 THEN 0 ELSE days_before_month(y, m - 1) + DaysInMonth(y, m - 1)

\* date.toordinal()
toordinal(d) ==
    LET y == d[1] - 1
    IN  y * 365 + (y \div 4) - (y \div 100) + (y \div 400)
        + days_before_month(d[1], d[2]) + d[3]

\* date.weekday(): Monday is 0
weekday(d) == (toordinal(d) + 6) % 7

\* d - timedelta(days=1)
prev_day(d) ==
    IF d[3] > 1 THEN <<d[1], d[2], d[3] - 1>>
    ELSE IF d[2] > 1 THEN <<d[1], d[2] - 1, DaysInMonth(d[1], d[2] - 1)>>
    ELSE <<d[1] - 1, 12, 31>>

\* d + timedelta(days=1)
next_day(d) ==
    IF d[3] < DaysInMonth(d[1], d[2]) THEN <<d[1], d[2], d[3] + 1>>
    ELSE IF d[2] < 12 THEN <<d[1], d[2] + 1, 1>>
    ELSE <<d[1] + 1, 1, 1>>

RECURSIVE add_days(_, _)
\* d + timedelta(days=k)
add_days(d, k) ==
    IF k = 0 THEN d
    ELSE IF k > 0 THEN add_days(next_day(d), k - 1)
    ELSE add_days(prev_day(d), k + 1)

\* the month after the month m of year y
next_month(y, m) == IF m < 12 THEN <<y, m + 1>> ELSE <<y + 1, 1>>

\* d + relativedelta(months=1): the day is cut to the length of the month
add_month(d) ==
    LET ym == next_month(d[1], d[2])
        last == DaysInMonth(ym[1], ym[2])
    IN  <<ym[1], ym[2], IF d[3] > last THEN last ELSE d[3]>>

RECURSIVE weekly(_, _)
\* rrule(WEEKLY, dtstart=start, until=today)
weekly(start, today) ==
    IF date_lt(today, start) THEN <<>>
    ELSE <<start>> \o weekly(add_days(start, 7), today)

RECURSIVE monthly_from(_, _, _, _)
\* the dates of rrule(MONTHLY, ...) with day of month dom, from month m of
\* year y on: a month that has no such day is left out
monthly_from(y, m, dom, today) ==
    IF date_lt(today, <<y, m, 1>>) THEN <<>>
    ELSE (IF dom <= DaysInMonth(y, m) /\ date_le(<<y, m, dom>>, today)
          THEN <<<<y, m, dom>>>> ELSE <<>>)
         \o monthly_from(next_month(y, m)[1], next_month(y, m)[2], dom, today)

\* rrule(MONTHLY, dtstart=start, until=today)
monthly(start, today) == monthly_from(start[1], start[2], start[3], today)

\* date.strftime("%d.%m")
strftime_dm(d) == zfill(str_int(d[3]), 2) \o <<".">> \o zfill(str_int(d[2]), 2)

\* date.strftime("%Y")
strftime_Y(d) == zfill(str_int(d[1]), 4)

month_name ==
    <<<<"J", "a", "n", "u", "a", "r", "y">>,
      <<"F", "e", "b", "r", "u", "a", "r", "y">>,
      <<"M", "a", "r", "c", "h">>,
      <<"A", "p", "r", "i", "l">>,
      <<"M", "a", "y">>,
      <<"J", "u", "n", "e">>,
      <<"J", "u", "l", "y">>,
      <<"A", "u", "g", "u", "s", "t">>,
      <<"S", "e", "p", "t", "e", "m", "b", "e", "r">>,
      <<"O", "c", "t", "o", "b", "e", "r">>,
      <<"N", "o", "v", "e", "m", "b", "e", "r">>,
      <<"D", "e", "c", "e", "m", "b", "e", "r">>>>

\* date.strftime("%B")
strftime_B(d) == month_name[d[2]]

(***************************************************************************)
(* The calendar reports                                                    *)
(***************************************************************************)
\* Bookkeeper(month_start_day, weekly_categories): the configuration
month_start_day == 3

food == <<"f", "o", "o", "d">>

snacks == <<"s", "n", "a", "c", "k", "s">>

weekly_categories == list(<<<<food>>>>)

\* Bookkeeper.closest_monday
closest_monday(date) == add_days(date, -weekday(date))

RECURSIVE closest_month_beginning(_)
\* Bookkeeper.closest_month_beginning
closest_month_beginning(date) ==
    IF date[3] # month_start_day THEN closest_month_beginning(prev_day(date))
    ELSE date

RECURSIVE min_day(_)
\* min(e.day for e in es), for es not empty and without a day that is None
\* next to another day
min_day(es) ==
    IF Len(es) = 1 THEN es[1].day
    ELSE LET m == min_day(Tail(es))
         IN  IF date_lt(m, es[1].day) THEN m ELSE es[1].day

RECURSIVE first_exc(_)
\* the first exception among the outcomes rs, "none" when there is none
first_exc(rs) ==
    IF rs = <<>> THEN "none"
    ELSE IF Head(rs).exc # "none" THEN Head(rs).exc
    ELSE first_exc(Tail(rs))

\* the exception the start of both calendar reports raises: min() of no
\* entries, or a method of the day None
start_exc(es) ==
    IF es = <<>> THEN "ValueError"
    ELSE IF min_day(es) = None THEN "AttributeError"
    ELSE "none"

\* the periods of every_calendar_weak, in order
weeks(es, today) ==
    LET starts == weekly(closest_monday(min_day(es)), today)
    IN  [i \in 1..Len(starts) |-> <<starts[i], add_days(starts[i], 6)>>]

\* bk.every_calendar_weak(): per week the expenses of the weekly categories
every_calendar_weak(es, today) ==
    LET week_expenses(p) ==
            filter(es, today, p, weekly_categories, none_, <<"-">>, <<None>>)
        per_week(ps, fs) ==
            IF first_exc(fs) # "none" THEN [exc |-> first_exc(fs), result |-> <<>>]
            ELSE [exc |-> "none",
                  result |-> [p \in {ps[i] : i \in 1..Len(ps)} |->
                                 spent(week_expenses(p).items)]]
        periods(ps) == per_week(ps, [i \in 1..Len(ps) |-> week_expenses(ps[i])])
    IN  IF start_exc(es) # "none" THEN [exc |-> start_exc(es), result |-> <<>>]
        ELSE periods(weeks(es, today))

\* the periods of monthly_by_categories, in order
months(es, today) ==
    LET starts == monthly(closest_month_beginning(min_day(es)), today)
    IN  [i \in 1..Len(starts) |-> <<starts[i], prev_day(add_month(starts[i]))>>]

\* bk.monthly_by_categories(): per month the expenses by top category
monthly_by_categories(es, today) ==
    LET in_month(p) == filter(es, today, p, none_, none_, None, <<None>>)
        by_top(p) == expenses_by_top_categories(in_month(p).items)
        per_month(ps, fs, bs) ==
            IF first_exc(fs) # "none" THEN [exc |-> first_exc(fs), result |-> <<>>]
            ELSE IF first_exc(bs) # "none" THEN [exc |-> first_exc(bs), result |-> <<>>]
            ELSE [exc |-> "none",
                  result |-> [p \in {ps[i] : i \in 1..Len(ps)} |-> by_top(p).result]]
        periods(ps) == per_month(ps, [i \in 1..Len(ps) |-> in_month(ps[i])],
                                 [i \in 1..Len(ps) |-> by_top(ps[i])])
    IN  IF start_exc(es) # "none" THEN [exc |-> start_exc(es), result |-> <<>>]
        ELSE periods(months(es, today))

(***************************************************************************)
(* make_model                                                              *)
(***************************************************************************)
\* the orders sorted(..., reverse=True) can give the categories by their
\* spent sums, sums[c] for the category c: the sums do not increase, and
\* categories with equal sums stay in the order the set gave them, which is
\* any order
sorted_orders(sums) ==
    {o \in [1..Cardinality(DOMAIN sums) -> DOMAIN sums] :
        /\ \A c \in DOMAIN sums : \E i \in DOMAIN o : o[i] = c
        /\ \A i \in DOMAIN o : \A j \in DOMAIN o : i < j => sums[o[i]] >= sums[o[j]]}

RECURSIVE sum_cells(_, _)
\* the sum of the values of the dict d over its keys ks
sum_cells(d, ks) ==
    IF ks = {} THEN 0
    ELSE LET k == CHOOSE x \in ks : TRUE
         IN  d[k].value + sum_cells(d, ks \ {k})

RECURSIVE reconcile(_, _, _)
\* the loop of make_model over the transactions and milestones es: one
\* period and one cell per milestone
reconcile(es, current_value, left_date) ==
    IF es = <<>> THEN <<>>
    ELSE LET e == Head(es)
         IN  IF e.cmd = milestone
             THEN <<[period |-> strftime_dm(left_date) \o <<"-">> \o strftime_dm(e.day),
                     value  |-> e.value - current_value,
                     note   |-> <<<<"A", "c", "c", "o", "u", "n", "t", "e", "d", ":", " ">>
                                      \o format_0f(current_value),
                                  <<"A", "c", "t", "u", "a", "l", ":", " ">>
                                      \o format_0f(e.value)>>]>>
                  \o reconcile(Tail(es), e.value, e.day)
             ELSE reconcile(Tail(es), current_value + e.value, left_date)

\* make_model(bk, weekly_categories) on the entries es of bk, with the
\* categories in the order cat_order
make_model(es, today, cat_order) ==
    LET \* reading mm[cc] for the sort gives every month every category
        cell(t, c) == IF c \in DOMAIN t THEN t[c] ELSE [value |-> 0, note |-> <<>>]
        full(t) == [c \in {cat_order[i] : i \in 1..Len(cat_order)} |-> cell(t, c)]
        income(p) == filter(es, today, p, none_, none_, <<"+">>, <<None>>)
        fields(p, cells, earned, total_spent) ==
            [month |-> strftime_Y(p[1]) \o <<" ">> \o strftime_B(p[1]) \o <<" ", "(">>
                       \o strftime_dm(p[1]) \o <<"-">> \o strftime_dm(p[2]) \o <<")">>,
             income |-> [value |-> sum_values(earned), note |-> notes(earned)],
             total_spent |-> total_spent,
             balance |-> sum_values(earned) - total_spent,
             cells |-> [i \in 1..Len(cat_order) |-> cells[cat_order[i]]]]
        row(p, cells) == fields(p, cells, income(p).items, sum_cells(cells, DOMAIN cells))
        model(ew, ws, mc, ms, rec) ==
            IF ew.exc # "none" THEN [exc |-> ew.exc]
            ELSE IF mc.exc # "none" THEN [exc |-> mc.exc]
            ELSE IF \E i \in 1..Len(cat_order) : cat_order[i] = <<>>
            THEN [exc |-> "IndexError"]
            ELSE [exc |-> "none",
                  total_value |-> get_total_value(es),
                  selected_expenses_weekly |->
                      <<[i \in 1..Len(ws) |->
                            strftime_dm(ws[i][1]) \o <<"-">> \o strftime_dm(ws[i][2])],
                        [i \in 1..Len(ws) |-> ew.result[ws[i]]]>>,
                  weekly_categories |->
                      join(<<",", " ">>, [i \in 1..Len(weekly_categories.items) |->
                                             weekly_categories.items[i][1]]),
                  monthly_by_categories |->
                      [header |-> <<<<"M", "o", "n", "t", "h">>,
                                    <<"I", "n", "c", "o", "m", "e">>,
                                    <<"T", "o", "t", "a", "l", " ", "s", "p", "e", "n", "t">>,
                                    <<"B", "a", "l", "a", "n", "c", "e">>>>
                                  \o [i \in 1..Len(cat_order) |-> cat_order[i][1]],
                       rows   |-> [i \in 1..Len(ms) |->
                                      row(ms[i], full(mc.result[ms[i]]))]],
                  errors |->
                      <<[i \in 1..Len(rec) |-> rec[i].period],
                        [i \in 1..Len(rec) |->
                            [value |-> rec[i].value, note |-> rec[i].note]]>>]
    IN  model(every_calendar_weak(es, today),
              weeks(es, today),
              monthly_by_categories(es, today),
              months(es, today),
              reconcile(filter(es, today, None, none_, none_, None,
                               <<None, milestone>>).items, 0, es[1].day))

\* the categories make_model sorts: the keys of all months of the report mc
\* of monthly_by_categories
model_categories(mc) ==
    IF mc.exc # "none" THEN {}
    ELSE UNION {DOMAIN mc.result[p] : p \in DOMAIN mc.result}

\* the spent sums make_model sorts the categories by
model_sums(mc) ==
    LET val(p, c) == IF c \in DOMAIN mc.result[p] THEN mc.result[p][c].value ELSE 0
    IN  [c \in model_categories(mc) |->
            sum_cells([p \in DOMAIN mc.result |-> [value |-> val(p, c)]],
                      DOMAIN mc.result)]

(***************************************************************************)
(* The program: load_data feeds lines to account and returns the           *)
(* Bookkeeper, which the reports then read                                 *)
(***************************************************************************)
\* the longest text load_data is given, in lines
MaxLines == 4

VARIABLES
    entries,    \* bk.entries
    last_day,   \* bk.last_day
    pc,         \* load_data: "loading" in its loop, "returned", or "raised"
    line,       \* the loop variable of load_data: the line last accounted
    n,          \* the number of lines accounted
    error,      \* the exception and the line the LineFormatError reports
    out,        \* what the last report returned
    seen_day,   \* history: the day of the last entry parsed with a day
    order       \* history: order[i] is the number of the line entries[i] came from

vars == <<entries, last_day, pc, line, n, error, out, seen_day, order>>

Init ==
    /\ entries = <<>>
    /\ last_day = None
    /\ pc = "loading"
    /\ line = None
    /\ n = 0
    /\ error = [exc |-> "none", line |-> None]
    /\ out = [op |-> "none"]
    /\ seen_day = None
    /\ order = <<>>

\* one round of the loop of load_data: bk.account(l); an exception ends the
\* load with a LineFormatError
Account(l) ==
    /\ pc = "loading"
    /\ n < MaxLines
    /\ \E r \in {account(entries, last_day, l)} :
           /\ entries' = r.entries
           /\ last_day' = r.last_day
           /\ pc' = IF r.exc = "none" THEN "loading" ELSE "raised"
           /\ error' = IF r.exc = "none" THEN error ELSE [exc |-> r.exc, line |-> l]
           /\ order' = IF r.pos = -1 THEN order ELSE insert(order, r.pos, n + 1)
    /\ \E p \in {Entry_init(l, last_day)} :
           seen_day' = IF /\ l # <<>>
                          /\ p.exc = "none"
                          /\ ~Entry_eq(p.e, DefaultEntry)
                          /\ p.e.day # None
                       THEN p.e.day ELSE seen_day
    /\ line' = l
    /\ n' = n + 1
    /\ UNCHANGED out

\* the text is exhausted: load_data returns bk
Return ==
    /\ pc = "loading"
    /\ pc' = "returned"
    /\ UNCHANGED <<entries, last_day, line, n, error, out, seen_day, order>>

\* a report reads the Bookkeeper load_data returned.  No report reads what
\* another one returned, so a run of the model makes one report.
Report(result) ==
    /\ pc = "returned"
    /\ out.op = "none"
    /\ out' = result
    /\ UNCHANGED <<entries, last_day, pc, line, n, error, seen_day, order>>

\* datetime.date.today() at the time of a report
Todays == {<<2023, 1, 9>>, <<2023, 2, 4>>}

work == <<"w", "o", "r", "k">>

\* the arguments the model calls filter with
FilterArgs ==
    {[period |-> None, cats |-> none_, tags |-> none_, sign |-> None,
      cmds |-> <<None>>],
     [period |-> None, cats |-> list(<<<<food>>>>), tags |-> none_, sign |-> None,
      cmds |-> <<None>>],
     [period |-> None, cats |-> list(<<<<food>>, <<food, snacks>>>>), tags |-> none_,
      sign |-> None, cmds |-> <<None>>],
     [period |-> <<None, None>>, cats |-> none_, tags |-> none_, sign |-> <<"-">>,
      cmds |-> <<None>>],
     [period |-> None, cats |-> none_, tags |-> list(<<work>>), sign |-> None,
      cmds |-> <<None, milestone>>],
     [period |-> <<<<2023, 1, 3>>, <<2023, 1, 5>>>>, cats |-> list(<<<<<<"b">>>>>>),
      tags |-> none_, sign |-> <<"+">>, cmds |-> <<None>>]}

GetTotalValue == Report([op |-> "get_total_value", value |-> get_total_value(entries)])

Filter(a, today) ==
    Report([op |-> "filter", args |-> a, today |-> today,
            result |-> filter(entries, today, a.period, a.cats, a.tags, a.sign, a.cmds)])

AllCategories == Report([op |-> "all_categories", result |-> all_categories(entries)])

ExpensesByTopCategories ==
    Report([op |-> "expenses_by_top_categories",
            result |-> expenses_by_top_categories(entries)])

EveryCalendarWeak(today) ==
    Report([op |-> "every_calendar_weak", today |-> today,
            result |-> every_calendar_weak(entries, today)])

MonthlyByCategories(today) ==
    Report([op |-> "monthly_by_categories", today |-> today,
            result |-> monthly_by_categories(entries, today)])

MakeModel(today) ==
    \E o \in sorted_orders(model_sums(monthly_by_categories(entries, today))) :
        Report([op |-> "make_model", today |-> today,
                result |-> make_model(entries, today, o)])

\* str(entries[i]), and that text parsed again with the date d to inherit
Str(i, d) ==
    Report([op |-> "str", e |-> entries[i], date |-> d,
            text |-> Entry_str(entries[i]),
            parsed |-> Entry_init(Entry_str(entries[i]), d)])

\* the lines of the ledgers the reports are run on
LedgerLines == {l_food5, l_snack3, l_b5, l_nodate, l_mile3, l_foo5}

Load == \E l \in LedgerLines : Account(l)

Next ==
    \/ Load
    \/ Return
    \/ GetTotalValue
    \/ \E a \in FilterArgs : \E today \in Todays : Filter(a, today)
    \/ AllCategories
    \/ ExpensesByTopCategories
    \/ \E today \in Todays : EveryCalendarWeak(today)
    \/ \E today \in Todays : MonthlyByCategories(today)
    \/ \E today \in Todays : MakeModel(today)
    \/ \E i \in 1..Len(entries) : \E d \in {None, entries[i].day} : Str(i, d)

\* the whole program: a ledger is loaded, then reports are made
Spec == Init /\ [][Next]_vars

LoadAny == \E l \in Lines : Account(l)

NextLoad ==
    \/ LoadAny
    \/ Return

\* load_data alone, on every line of the model
SpecLoad == Init /\ [][NextLoad]_vars

(***************************************************************************)
(* Properties                                                              *)
(***************************************************************************)
\* the line last accounted left an entry in the ledger
StoredLine == \E i \in 1..Len(entries) : order[i] = n

\* the entry of the line last accounted
NewEntry == entries[CHOOSE i \in 1..Len(entries) : order[i] = n]

\* l is neither blank nor a comment
HasContent(l) == strip(l) # <<>> /\ strip(l)[1] # "#"

\* l is a transaction line without a date
IsDatelessTransaction(l) ==
    /\ HasContent(l)
    /\ ~cmd_re(l).matched
    /\ entry_re(l).matched
    /\ entry_re(l).date = None

\* l matches neither the command nor the transaction expression
IsMalformed(l) ==
    /\ HasContent(l)
    /\ ~cmd_re(l).matched
    /\ ~entry_re(l).matched

\* C1: the stored entries are in non-decreasing order of day, whatever the
\* order of the dates of the lines accounted
C1_LedgerSortedByDay ==
    \A i \in 1..(Len(entries) - 1) :
        /\ entries[i].day # None
        /\ entries[i + 1].day # None
        /\ date_le(entries[i].day, entries[i + 1].day)

\* C2: a transaction line without a date is stored with the day of the most
\* recent entry parsed before it, also when lines that give no entry were
\* accounted in between
C2_DatelessLineInheritsDay ==
    (n > 0 /\ IsDatelessTransaction(line) /\ seen_day # None)
        => (StoredLine /\ NewEntry.day = seen_day)

\* the absolute value of the amount field f evaluated
Magnitude(f) ==
    LET v == eval(replace_comma(f)).v
    IN  IF v < 0 THEN -v ELSE v

\* C3: the stored value of a transaction is +magnitude when the amount field
\* starts with '+', and -magnitude when it starts with '-' or has no sign
C3_SignFollowsLeadingCharacter ==
    (n > 0 /\ StoredLine /\ NewEntry.cmd = None)
        => LET f == entry_re(line).value
           IN  IF f[1] = "+" THEN NewEntry.value = Magnitude(f)
               ELSE NewEntry.value = -Magnitude(f)

RECURSIVE WalkTotal(_, _)
\* the walk C4 describes: a transaction adds its value, a milestone replaces
\* the total, any other command leaves it
WalkTotal(es, total) ==
    IF es = <<>> THEN total
    ELSE IF Head(es).cmd = None THEN WalkTotal(Tail(es), total + Head(es).value)
    ELSE IF Head(es).cmd = milestone THEN WalkTotal(Tail(es), Head(es).value)
    ELSE WalkTotal(Tail(es), total)

\* C4: get_total_value() is the result of that walk over the ledger
C4_TotalValueIsWalk ==
    out.op = "get_total_value" => out.value = WalkTotal(entries, 0)

\* C5: once a line that matches neither expression is accounted, the load
\* has failed with a LineFormatError that names the line
C5_MalformedLineFailsLoad ==
    (n > 0 /\ IsMalformed(line)) => (pc = "raised" /\ error.line = line)

\* the category path of e starts with the prefix c
HasPrefix(e, c) ==
    /\ Len(e.cats.items) >= Len(c)
    /\ SubSeq(e.cats.items, 1, Len(c)) = c

\* C6: filter(cats=P) returns, in ledger order and once each, the
\* transactions whose category path starts with a prefix of P
C6_FilterByCatsIsSubsequence ==
    (/\ out.op = "filter"
     /\ out.args.cats.type = "list"
     /\ out.args.period = None
     /\ out.args.tags.type = "NoneType"
     /\ out.args.sign = None
     /\ out.args.cmds = <<None>>)
        => LET P == out.args.cats.items
               wanted(e) == e.cmd = None /\ \E k \in 1..Len(P) : HasPrefix(e, P[k])
           IN  /\ out.result.exc = "none"
               /\ out.result.items = SelectSeq(entries, wanted)

\* C7: entries of the same day stand in the ledger in the order in which
\* they were accounted
C7_EqualDaysInAccountedOrder ==
    \A i \in 1..Len(entries) : \A j \in 1..Len(entries) :
        (i < j /\ entries[i].day = entries[j].day) => order[i] < order[j]

\* C8: a dateless transaction line accounted with no remembered date stores
\* nothing, so every stored entry has a day that is a date
C8_EveryStoredDayIsADate ==
    \A i \in 1..Len(entries) : entries[i].day # None

\* entries' is entries with one element put in somewhere
OneAdded ==
    /\ Len(entries') = Len(entries) + 1
    /\ \E i \in 1..Len(entries') :
           entries = [j \in 1..Len(entries) |->
                         IF j < i THEN entries'[j] ELSE entries'[j + 1]]

\* C9: a step of account keeps every stored entry, with its fields and in
\* its place relative to the others, and adds at most one entry; a report
\* leaves the entries and the remembered last date as they are
C9_StoredEntriesStay ==
    [][/\ entries' = entries \/ OneAdded
       /\ pc = "returned" => (entries' = entries /\ last_day' = last_day)]_vars

\* C9 happens: a line was stored in front of entries accounted before it,
\* and make_model has reported on that ledger
C9_Witness ==
    /\ \E i \in 1..Len(order) : \E j \in 1..Len(order) : i < j /\ order[i] > order[j]
    /\ out.op = "make_model"
    /\ out.result.exc = "none"

\* C10: the text str(e) of a stored entry e parses to an entry with the
\* categories, day, tags, value and note of e, and for a command entry with
\* its day, command and value
C10_StrRoundTrip ==
    out.op = "str"
        => /\ out.parsed.exc = "none"
           /\ IF out.e.cmd = None THEN Entry_eq(out.parsed.e, out.e)
              ELSE /\ out.parsed.e.day = out.e.day
                   /\ out.parsed.e.cmd = out.e.cmd
                   /\ out.parsed.e.value = out.e.value

====
